---- MODULE Spec2Model ----
(***************************************************************************)
(* A model of dsl/scanner.py: the indentation- and bracket-aware raw lexer *)
(* (RawScanner, a plex.Scanner subclass) and the one-token lookahead       *)
(* Scanner layered on top of it.                                           *)
(*                                                                         *)
(* The input is a sequence of one-character strings.  The plex machinery   *)
(* that RawScanner inherits (the character cursor with its pseudo          *)
(* characters bol/eol/eof, the longest-match automaton run, the token      *)
(* queue) is modelled as plex implements it, because the handlers of       *)
(* RawScanner depend on it: which text a handler receives, which position  *)
(* position() reports, and when eof() is called.                           *)
(***************************************************************************)
EXTENDS Integers, Sequences, FiniteSets, TLC

(***************************************************************************)
(* Bounds of the model.                                                    *)
(***************************************************************************)
\* lines per input
MaxLines == 2
\* leading spaces per line
MaxIndent == 2
\* characters per line after its leading spaces
MaxBody == 1
\* read() calls made after the first EOF token has been delivered
MaxPostEof == 1

\* lines of a block input
BlockLines == 3
\* leading spaces per line of a block input
BlockIndent == 3

(***************************************************************************)
(* Inputs: up to MaxLines lines, each a run of spaces followed by a body,  *)
(* joined by "\n", with or without a final "\n".                           *)
(***************************************************************************)
BodyChars == {"a", "(", ")", "#", "@"}

Spaces(n) == [i \in 1..n |-> " "]

RECURSIVE SeqsUpTo(_, _)
SeqsUpTo(S, n) ==
    IF n = 0 THEN {<<>>}
    ELSE LET shorter == SeqsUpTo(S, n - 1)
         IN  shorter \cup {Append(s, c) : s \in shorter, c \in S}

Bodies == SeqsUpTo(BodyChars, MaxBody)

LineSet == {Spaces(w) \o b : w \in 0..MaxIndent, b \in Bodies}

RECURSIVE Joined(_)
Joined(k) ==
    IF k = 1 THEN LineSet
    ELSE {p \o <<"\n">> \o l : p \in Joined(k - 1), l \in LineSet}

Inputs == UNION {Joined(k) \cup {p \o <<"\n">> : p \in Joined(k)} : k \in 1..MaxLines}

(***************************************************************************)
(* The end-to-end example inputs of the documentation.                     *)
(***************************************************************************)
ExampleAssign == <<"a", " ", "=", " ", "1", "\n">>
ExampleBlock == <<"x", ":", "\n", " ", " ", "y", "\n">>
ExampleBracket == <<"f", "(", "1", ",", "\n", "2", ")", "\n">>
ExampleHex == <<"0", "x", "f", "g", "\n">>
ExampleDedent == <<"a", ":", "\n", " ", " ", " ", " ", "b", "\n", " ", " ", " ", "c", "\n">>
ExampleStray == <<"@", "\n">>

Examples == {ExampleAssign, ExampleBlock, ExampleBracket, ExampleHex, ExampleDedent, ExampleStray}

(***************************************************************************)
(* Block inputs: BlockLines lines, each a run of up to BlockIndent spaces  *)
(* followed by a name or a comment and "\n", to nest and close levels.     *)
(***************************************************************************)
BlockLineSet == {Spaces(w) \o <<b, "\n">> : w \in 0..BlockIndent, b \in {"a", "#"}}

RECURSIVE BlocksOf(_)
BlocksOf(k) ==
    IF k = 0 THEN {<<>>}
    ELSE {p \o l : p \in BlocksOf(k - 1), l \in BlockLineSet}

Blocks == BlocksOf(BlockLines)

VARIABLES
    input,            \* the character stream handed to the constructor
    expression_only,  \* the constructor's mode flag
    raw,              \* Scanner.raw_scanner: the RawScanner (and plex.Scanner) fields
    peeked,           \* Scanner.peeked
    peeking,          \* Scanner.peeking
    last_token,       \* Scanner.last_token
    force_eof,        \* Scanner.force_eof
    op,               \* the operation performed last
    ret,              \* what it returned or raised
    delivered,        \* the tokens returned by read() and by successful require_* so far
    error_yielded,    \* the ERROR token a peek() has yielded, once one has
    error_consumed    \* whether that ERROR token has been consumed
vars == <<input, expression_only, raw, peeked, peeking, last_token, force_eof,
          op, ret, delivered, error_yielded, error_consumed>>

(***************************************************************************)
(* Values.  Python's None, strings (as character sequences), integers and  *)
(* diagnostic objects are kept apart by a tag.                             *)
(***************************************************************************)
None == [k |-> "None"]
ValText(s) == [k |-> "text", s |-> s]
ValInt(n) == [k |-> "int", n |-> n]

Last(s) == s[Len(s)]
Front(s) == SubSeq(s, 1, Len(s) - 1)

(***************************************************************************)
(* Character classes of the lexicon.                                       *)
(***************************************************************************)
digit == {"0", "1", "2", "3", "4", "5", "6", "7", "8", "9"}
lowercase == {"a", "b", "c", "d", "e", "f", "g", "h", "i", "j", "k", "l", "m",
              "n", "o", "p", "q", "r", "s", "t", "u", "v", "w", "x", "y", "z"}
uppercase == {"A", "B", "C", "D", "E", "F", "G", "H", "I", "J", "K", "L", "M",
              "N", "O", "P", "Q", "R", "S", "T", "U", "V", "W", "X", "Y", "Z"}
letter == lowercase \cup uppercase
open_bracket == {"(", "{", "["}
close_bracket == {")", "}", "]"}
single_punct == {"|", "&", "^", "=", "<", ">", "*", "/", "%", "~", "+", "-", ":", ",", "."}
\* plex's pseudo characters, and the cursor's value past the end
special == {"bol", "eol", "eof", ""}
IsRealChar(c) == c \notin special

(***************************************************************************)
(* plex.Scanner.next_char: the cursor over the input.  A newline is seen   *)
(* as eol, "\n", bol; the end of the input as eol, eof, "".                *)
(***************************************************************************)
next_char(r) ==
    CASE r.input_state = 1 ->
            LET c == IF r.next_pos < Len(input) THEN input[r.next_pos + 1] ELSE ""
                n == IF c # "" THEN r.next_pos + 1 ELSE r.next_pos
            IN  [r EXCEPT !.cur_pos = r.next_pos,
                          !.next_pos = n,
                          !.cur_char = IF c = "\n" \/ c = "" THEN "eol" ELSE c,
                          !.input_state = IF c = "\n" THEN 2 ELSE IF c = "" THEN 4 ELSE 1]
      [] r.input_state = 2 -> [r EXCEPT !.cur_char = "\n", !.input_state = 3]
      [] r.input_state = 3 ->
            [r EXCEPT !.cur_line = r.cur_line + 1,
                      !.cur_line_start = r.next_pos,
                      !.cur_pos = r.next_pos,
                      !.cur_char = "bol",
                      !.input_state = 1]
      [] r.input_state = 4 -> [r EXCEPT !.cur_char = "eof", !.input_state = 5]
      [] OTHER -> [r EXCEPT !.cur_char = ""]

(***************************************************************************)
(* The automaton plex builds from RawScanner.lexicon.  Every pattern may   *)
(* be preceded by bol; "\n" is matched as an optional eol and the newline. *)
(* Start is the default state's start, IStart that of State('indent').     *)
(***************************************************************************)
StartTrans(c) ==
    CASE c = "0" -> "Zero"
      [] c \in digit \ {"0"} -> "Num"
      [] c \in letter \cup {"_"} -> "Ident"
      [] c = "\"" -> "Str"
      [] c \in open_bracket -> "Open"
      [] c \in close_bracket -> "Close"
      [] c = "eol" -> "NlEol"
      [] c = "eof" -> "EofF"
      [] c = "=" -> "PEq"
      [] c = "<" -> "PLt"
      [] c = ">" -> "PGt"
      [] c = "+" -> "PPlus"
      [] c = "!" -> "PBang"
      [] c \in single_punct \ {"=", "<", ">", "+"} -> "P"
      [] c = " " -> "Sp"
      [] c = "#" -> "Cm"
      [] OTHER -> "none"

Trans(st, c) ==
    CASE st = "Start" -> IF c = "bol" THEN "StartB" ELSE StartTrans(c)
      [] st = "StartB" -> StartTrans(c)
      \* decimal_or_octal_number, hex_number, binary_number
      [] st = "Zero" -> CASE c \in digit -> "Num" [] c = "." -> "NumDot" [] c = "E" -> "NumE"
                          [] c = "x" -> "Hex0" [] c = "b" -> "Bin0" [] OTHER -> "none"
      [] st = "Num" -> CASE c \in digit -> "Num" [] c = "." -> "NumDot" [] c = "E" -> "NumE"
                         [] OTHER -> "none"
      [] st = "NumDot" -> IF c \in digit THEN "NumFrac" ELSE "none"
      [] st = "NumFrac" -> CASE c \in digit -> "NumFrac" [] c = "E" -> "NumE" [] OTHER -> "none"
      [] st = "NumE" -> IF c \in {"+", "-"} THEN "NumSign" ELSE "none"
      [] st = "NumSign" -> IF c \in digit THEN "NumExp" ELSE "none"
      [] st = "NumExp" -> IF c \in digit THEN "NumExp" ELSE "none"
      [] st = "Hex0" -> IF c \in digit \cup letter THEN "Hex" ELSE "none"
      [] st = "Hex" -> IF c \in digit \cup letter THEN "Hex" ELSE "none"
      [] st = "Bin0" -> IF c \in digit THEN "Bin" ELSE "none"
      [] st = "Bin" -> IF c \in digit THEN "Bin" ELSE "none"
      \* string_literal
      [] st = "Str" -> CASE c = "\\" -> "StrEsc" [] c = "\"" -> "StrF" [] c = "eol" -> "StrEol"
                         [] c = "bol" -> "Str" [] IsRealChar(c) -> "Str" [] OTHER -> "none"
      [] st = "StrEol" -> IF c = "\n" THEN "Str" ELSE "none"
      [] st = "StrEsc" -> IF c \in lowercase \cup {"\\", "\""} THEN "Str" ELSE "none"
      \* ident
      [] st = "Ident" -> IF c \in letter \cup {"_"} \cup digit THEN "Ident" ELSE "none"
      \* (Str("\n") | Eof)
      [] st = "NlEol" -> IF c = "\n" THEN "NlF" ELSE "none"
      \* punct
      [] st = "PEq" -> IF c = "=" THEN "P" ELSE "none"
      [] st = "PLt" -> IF c \in {"=", "<"} THEN "P" ELSE "none"
      [] st = "PGt" -> IF c \in {"=", ">"} THEN "P" ELSE "none"
      [] st = "PBang" -> IF c = "=" THEN "P" ELSE "none"
      [] st = "PPlus" -> IF c = "/" THEN "PPlusSlash" ELSE "none"
      [] st = "PPlusSlash" -> IF c = "-" THEN "P" ELSE "none"
      \* Rep1(Str(' '))
      [] st = "Sp" -> IF c = " " THEN "Sp" ELSE "none"
      \* Str("#") + Rep(AnyBut("\n")) + Opt(Str("\n"))
      [] st = "Cm" -> CASE c = "eol" -> "CmEol" [] IsRealChar(c) /\ c # "\n" -> "Cm"
                        [] OTHER -> "none"
      [] st = "CmEol" -> IF c = "\n" THEN "CmF" ELSE "none"
      \* State('indent'): Rep(Str(" ")) + Opt(Str("\n"))
      [] st = "IStart" -> CASE c = "bol" -> "ISp" [] c = " " -> "ISp" [] c = "eol" -> "IEol"
                            [] OTHER -> "none"
      [] st = "ISp" -> CASE c = " " -> "ISp" [] c = "eol" -> "IEol" [] OTHER -> "none"
      [] st = "IEol" -> IF c = "\n" THEN "IF" ELSE "none"
      [] OTHER -> "none"

\* the action of an accepting state of the automaton, "none" for the others
Action(st) ==
    CASE st \in {"Zero", "Num", "NumFrac", "NumExp", "Hex", "Bin"} -> "NUMBER"
      [] st = "StrF" -> "STRINGLIT"
      [] st = "Ident" -> "IDENT"
      [] st = "Open" -> "handle_open_bracket"
      [] st = "Close" -> "handle_close_bracket"
      [] st \in {"NlF", "EofF"} -> "handle_newline"
      [] st \in {"PEq", "PLt", "PGt", "PPlus", "P"} -> "TEXT"
      [] st = "Sp" -> "IGNORE"
      [] st \in {"Cm", "CmF"} -> "handle_comment"
      [] st \in {"IStart", "ISp", "IF"} -> "handle_indentation"
      [] OTHER -> "none"

\* Scanner.begin / Lexicon.get_initial_state
initial_state(state_name) == IF state_name = "indent" THEN "IStart" ELSE "Start"

(***************************************************************************)
(* plex.Scanner.run_machine_inlined: run the automaton from the cursor,    *)
(* remembering the last accepting state passed; when it blocks, go back to *)
(* that one.  With none passed, the cursor stays where the run blocked.    *)
(***************************************************************************)
RECURSIVE run_from(_, _, _)
run_next(r, new_state, backup_state) ==
    IF new_state # "none" THEN run_from(next_char(r), new_state, backup_state)
    ELSE IF backup_state.action # "none" THEN backup_state
    ELSE [action |-> "none", r |-> r]

run_from(r, st, backup_state) ==
    run_next(r, Trans(st, r.cur_char),
             IF Action(st) # "none" THEN [action |-> Action(st), r |-> r] ELSE backup_state)

run_machine(r) == run_from(r, initial_state(r.state_name), [action |-> "none", r |-> r])

(***************************************************************************)
(* plex.Scanner.scan_a_token: result "token" (an action and its text),     *)
(* "end" (end of input: ('', None)) or "UnrecognizedInput".                *)
(***************************************************************************)
scan_start(r) ==
    [r EXCEPT !.start_pos = r.cur_pos,
              !.start_line = r.cur_line,
              !.start_col = r.cur_pos - r.cur_line_start]

scan_unrecognized(r) ==
    [result |-> "UnrecognizedInput", action |-> "none", text |-> <<>>, r |-> r]

\* if not self.cur_char or self.cur_char == EOF: return ('', None)
scan_at_end(r) ==
    IF r.cur_char \in {"", "eof"}
    THEN [result |-> "end", action |-> "none", text |-> <<>>, r |-> r]
    ELSE scan_unrecognized(r)

\* the run matched nothing
scan_blocked(r) ==
    IF r.cur_pos = r.start_pos
    THEN scan_at_end(IF r.cur_char = "eol" THEN next_char(r) ELSE r)
    ELSE scan_unrecognized(r)

scan_result(m) ==
    IF m.action # "none"
    THEN [result |-> "token", action |-> m.action,
          text |-> SubSeq(input, m.r.start_pos + 1, m.r.cur_pos), r |-> m.r]
    ELSE scan_blocked(m.r)

scan_a_token(r) == scan_result(run_machine(scan_start(r)))

\* plex.Scanner.position
position(r) == [line |-> r.start_line, col |-> r.start_col]

(***************************************************************************)
(* Raw tokens: the (value, text) pairs of plex's queue.  The first member  *)
(* is the token type: a name, the matched text itself (TEXT and the        *)
(* bracket handlers) or Python's None, written NoneType here.              *)
(***************************************************************************)
NoneType == "<None>"

RECURSIVE Join(_)
Join(s) == IF s = <<>> THEN "" ELSE Head(s) \o Join(Tail(s))

\* plex.Scanner.produce, with both arguments given
produce(r, value, text) ==
    [r EXCEPT !.queue = Append(r.queue, [type |-> value, value |-> text]),
              !.n_indent = IF value = "INDENT" THEN @ + 1 ELSE @,
              !.n_outdent = IF value = "OUTDENT" THEN @ + 1 ELSE @]

\* plex.Scanner.begin
begin(r, state_name) == [r EXCEPT !.state_name = state_name]

(***************************************************************************)
(* The handlers of RawScanner.  Each yields the scanner after it, the      *)
(* value it returns (NoneType for no return value) and whether it raised   *)
(* IndentationError, with the position the exception carries.              *)
(***************************************************************************)
Returned(r, value) == [r |-> r, value |-> value, raised |-> FALSE, raw_position |-> position(r)]
Raised(r) == [r |-> r, value |-> NoneType, raised |-> TRUE, raw_position |-> position(r)]

\* handle_newline without the test of bracket_count
handle_newline_AnyDepth(r, text) == Returned(begin(r, "indent"), "NEWLINE")

handle_newline(r, text) ==
    IF r.bracket_count = 0
    THEN Returned(begin(r, "indent"), "NEWLINE")
    ELSE Returned(r, NoneType)

\* the while loop of outdent_to, popping without producing OUTDENT
RECURSIVE outdent_loop_Silent(_, _)
outdent_loop_Silent(r, new_level) ==
    IF new_level < Last(r.indents)
    THEN outdent_loop_Silent([r EXCEPT !.indents = Front(@)], new_level)
    ELSE r

\* the while loop of outdent_to
RECURSIVE outdent_loop(_, _)
outdent_loop(r, new_level) ==
    IF new_level < Last(r.indents)
    THEN outdent_loop(produce([r EXCEPT !.indents = Front(@)], "OUTDENT", ValText(<<>>)),
                      new_level)
    ELSE r

\* the check after the loop
outdent_check(r, new_level) ==
    IF Last(r.indents) # new_level THEN Raised(r) ELSE Returned(r, NoneType)

outdent_to(r, new_level) == outdent_check(outdent_loop(r, new_level), new_level)

\* the statement after a call of outdent_to, which an exception skips
then_begin(o, state_name) ==
    IF o.raised THEN o ELSE Returned(begin(o.r, state_name), NoneType)
then_produce(o, value, text) ==
    IF o.raised THEN o ELSE Returned(produce(o.r, value, text), NoneType)

\* handle_indentation that leaves the indent state after a blank line
handle_indentation_BlankBegins(r, text) ==
    IF Len(text) > 0 /\ text[Len(text)] = "\n"
    THEN Returned(begin(produce(r, "NEWLINE", ValText(<<"\n">>)), ""), NoneType)
    ELSE IF Len(text) > Last(r.indents)
    THEN Returned(begin(produce([r EXCEPT !.indents = Append(@, Len(text))],
                                "INDENT", ValInt(Len(text) - Last(r.indents))), ""),
                  NoneType)
    ELSE IF Len(text) < Last(r.indents)
    THEN then_begin(outdent_to(r, Len(text)), "")
    ELSE Returned(begin(r, ""), NoneType)

\* handle_indentation whose INDENT token carries the new width
handle_indentation_Width(r, text) ==
    IF Len(text) > 0 /\ text[Len(text)] = "\n"
    THEN Returned(produce(r, "NEWLINE", ValText(<<"\n">>)), NoneType)
    ELSE IF Len(text) > Last(r.indents)
    THEN Returned(begin(produce([r EXCEPT !.indents = Append(@, Len(text))],
                                "INDENT", ValInt(Len(text))), ""),
                  NoneType)
    ELSE IF Len(text) < Last(r.indents)
    THEN then_begin(outdent_to(r, Len(text)), "")
    ELSE Returned(begin(r, ""), NoneType)

\* handle_indentation that also pushes a width equal to the current level
handle_indentation_PushEqual(r, text) ==
    IF Len(text) > 0 /\ text[Len(text)] = "\n"
    THEN Returned(produce(r, "NEWLINE", ValText(<<"\n">>)), NoneType)
    ELSE IF Len(text) >= Last(r.indents)
    THEN Returned(begin(produce([r EXCEPT !.indents = Append(@, Len(text))],
                                "INDENT", ValInt(Len(text) - Last(r.indents))), ""),
                  NoneType)
    ELSE then_begin(outdent_to(r, Len(text)), "")

handle_indentation(r, text) ==
    IF Len(text) > 0 /\ text[Len(text)] = "\n"
    THEN \* Blank line, so skip.
         Returned(produce(r, "NEWLINE", ValText(<<"\n">>)), NoneType)
    ELSE IF Len(text) > Last(r.indents)
    THEN Returned(begin(produce([r EXCEPT !.indents = Append(@, Len(text))],
                                "INDENT", ValInt(Len(text) - Last(r.indents))), ""),
                  NoneType)
    ELSE IF Len(text) < Last(r.indents)
    THEN then_begin(outdent_to(r, Len(text)), "")
    ELSE Returned(begin(r, ""), NoneType)

\* handle_comment that begins the indent state and produces no NEWLINE
handle_comment_NoNewline(r, text) ==
    IF r.bracket_count = 0
    THEN Returned(begin(r, "indent"), NoneType)
    ELSE Returned(r, NoneType)

handle_comment(r, text) ==
    \* just treat comments like a funny sort of newline
    IF r.bracket_count = 0
    THEN Returned(produce(begin(r, "indent"), "NEWLINE", ValText(<<"\n">>)), NoneType)
    ELSE Returned(r, NoneType)

handle_open_bracket(r, text) ==
    Returned([r EXCEPT !.bracket_count = r.bracket_count + 1], Join(text))

\* handle_close_bracket without the test against min_bracket_count
handle_close_bracket_NoFloor(r, text) ==
    Returned([r EXCEPT !.bracket_count = r.bracket_count - 1], Join(text))

handle_close_bracket(r, text) ==
    Returned(IF r.bracket_count > r.min_bracket_count
             THEN [r EXCEPT !.bracket_count = r.bracket_count - 1]
             ELSE r,
             Join(text))

\* eof that closes the levels before it produces the NEWLINE
eof_OutdentFirst(r) ==
    IF r.bracket_count = 0
    THEN then_produce(then_produce(outdent_to(r, 0), "NEWLINE", ValText(<<"\n">>)),
                      "EOF", ValText(r.text))
    ELSE Returned(produce(r, "EOF", ValText(r.text)), NoneType)

\* eof that does not force a NEWLINE
eof_NoNewline(r) ==
    IF r.bracket_count = 0
    THEN then_produce(outdent_to(r, 0), "EOF", ValText(r.text))
    ELSE Returned(produce(r, "EOF", ValText(r.text)), NoneType)

eof(r) ==
    IF r.bracket_count = 0
    THEN then_produce(outdent_to(produce(r, "NEWLINE", ValText(<<"\n">>)), 0),
                      "EOF", ValText(r.text))
    ELSE Returned(produce(r, "EOF", ValText(r.text)), NoneType)

\* plex's Action.perform for the actions of the lexicon
perform(r, action, text) ==
    CASE action = "handle_newline" -> handle_newline(r, text)
      [] action = "handle_indentation" -> handle_indentation(r, text)
      [] action = "handle_comment" -> handle_comment(r, text)
      [] action = "handle_open_bracket" -> handle_open_bracket(r, text)
      [] action = "handle_close_bracket" -> handle_close_bracket(r, text)
      [] action = "TEXT" -> Returned(r, Join(text))
      [] action = "IGNORE" -> Returned(r, NoneType)
      [] OTHER -> Returned(r, action)

\* the NEWLINE tokens among the queue entries from index n + 1 on
RECURSIVE NewlinesFrom(_, _)
NewlinesFrom(q, n) ==
    IF n >= Len(q) THEN 0
    ELSE (IF q[n + 1].type = "NEWLINE" THEN 1 ELSE 0) + NewlinesFrom(q, n + 1)

HasNewline(text) == \E i \in 1..Len(text) : text[i] = "\n"

(***************************************************************************)
(* One turn of the loop of plex.Scanner.read: scan a token and perform its *)
(* action, or, at the end of the input, produce(None) and call eof().      *)
(* breaks counts the turns that consumed a line break at bracket depth 0,  *)
(* break_newlines the NEWLINE tokens those turns put on the queue, and     *)
(* break_exact tells that each of them put exactly one there.              *)
(***************************************************************************)
count_break(before, s, r) ==
    IF s.result = "token" /\ HasNewline(s.text) /\ before.bracket_count = 0
    THEN [r EXCEPT !.breaks = @ + 1,
                   !.break_newlines = @ + NewlinesFrom(r.queue, Len(before.queue)),
                   !.break_exact = @ /\ NewlinesFrom(r.queue, Len(before.queue)) = 1]
    ELSE r

\* self.text, action = self.scan_a_token()
with_text(s) == [s.r EXCEPT !.text = s.text]

step_action(s) ==
    IF s.result = "end"
    THEN eof(produce(with_text(s), NoneType, ValText(s.text)))
    ELSE perform(with_text(s), s.action, s.text)

step_done(before, s, p) ==
    IF p.raised
    THEN [r |-> count_break(before, s, p.r), raised |-> "IndentationError",
          raw_position |-> p.raw_position]
    ELSE [r |-> count_break(before, s,
                            IF p.value # NoneType
                            THEN produce(p.r, p.value, ValText(s.text))
                            ELSE p.r),
          raised |-> "none", raw_position |-> p.raw_position]

step_scanned(before, s) ==
    IF s.result = "UnrecognizedInput"
    THEN [r |-> s.r, raised |-> "UnrecognizedInput", raw_position |-> position(s.r)]
    ELSE step_done(before, s, step_action(s))

read_step(r) == step_scanned(r, scan_a_token(r))

(***************************************************************************)
(* plex.Scanner.read: turn the loop until the queue holds a token, then    *)
(* take the first one.                                                     *)
(***************************************************************************)
RECURSIVE raw_read(_)
read_turn(t) ==
    IF t.raised # "none"
    THEN [r |-> t.r, token |-> [type |-> NoneType, value |-> None],
          raised |-> t.raised, raw_position |-> t.raw_position]
    ELSE raw_read(t.r)

raw_read(r) ==
    IF r.queue # <<>>
    THEN [r |-> [r EXCEPT !.queue = Tail(@)], token |-> Head(r.queue),
          raised |-> "none", raw_position |-> position(r)]
    ELSE read_turn(read_step(r))

\* RawScanner.__init__ that does not pretend a bracket is open
RawScanner_NoBracket(expr_only) ==
    [cur_pos |-> 0, next_pos |-> 0, cur_line |-> 1, cur_line_start |-> 0,
     cur_char |-> "bol", input_state |-> 1,
     start_pos |-> 0, start_line |-> 0, start_col |-> 0,
     text |-> <<>>, queue |-> <<>>,
     state_name |-> IF expr_only THEN "" ELSE "indent",
     indents |-> <<0>>,
     bracket_count |-> 0,
     min_bracket_count |-> 0,
     n_indent |-> 0, n_outdent |-> 0, breaks |-> 0, break_newlines |-> 0,
     break_exact |-> TRUE]

\* RawScanner.__init__ (and plex.Scanner.__init__)
RawScanner(expr_only) ==
    [cur_pos |-> 0, next_pos |-> 0, cur_line |-> 1, cur_line_start |-> 0,
     cur_char |-> "bol", input_state |-> 1,
     start_pos |-> 0, start_line |-> 0, start_col |-> 0,
     text |-> <<>>, queue |-> <<>>,
     state_name |-> IF expr_only THEN "" ELSE "indent",
     indents |-> <<0>>,
     bracket_count |-> IF expr_only THEN 1 ELSE 0,
     min_bracket_count |-> IF expr_only THEN 1 ELSE 0,
     n_indent |-> 0, n_outdent |-> 0, breaks |-> 0, break_newlines |-> 0,
     break_exact |-> TRUE]

(***************************************************************************)
(* Token, SourceLocation, SourceRange and the diagnostics of               *)
(* dsl.diagnostics.  The file name is the same in every location of one    *)
(* scan and is left out.                                                   *)
(***************************************************************************)
SourceLocation(line, column) == [line |-> line, column |-> column]
SourceRange(start, end) == [start |-> start, end |-> end]
Token(type, value, source_range) ==
    [type |-> type, value |-> value, source_range |-> source_range]

InvalidCharacter(location) == [k |-> "diag", kind |-> "InvalidCharacter", location |-> location]
InvalidIndentation(location) == [k |-> "diag", kind |-> "InvalidIndentation", location |-> location]
UnexpectedToken(wanted_token, got_token) ==
    [k |-> "diag", kind |-> "UnexpectedToken", wanted_token |-> wanted_token,
     got_token |-> got_token]

\* Scanner.__init__: the BEGIN token last_token starts as
BeginToken == Token("BEGIN", None, SourceRange(SourceLocation(1, 1), SourceLocation(1, 1)))

\* len(raw_peeked[1])
ValueLength(value) == IF value.k = "text" THEN Len(value.s) ELSE 0

(***************************************************************************)
(* The Scanner as a record Sc of its fields, and its methods as operators  *)
(* from a scanner to the scanner after the call and the call's result.     *)
(***************************************************************************)
Sc == [raw |-> raw, peeked |-> peeked, peeking |-> peeking,
       last_token |-> last_token, force_eof |-> force_eof]

\* PeekFailed without the assignment that sets force_eof
PeekFailed_NoForceEof(S, r, diagnostic) ==
    [S EXCEPT !.raw = r,
              !.peeked = Token("ERROR", diagnostic, None),
              !.peeking = FALSE]

\* the ERROR token and force_eof of the two except clauses of Scanner.peek
PeekFailed(S, r, diagnostic) ==
    [S EXCEPT !.raw = r,
              !.peeked = Token("ERROR", diagnostic, None),
              !.force_eof = TRUE,
              !.peeking = FALSE]

\* the token's range: it starts at the raw scanner's position and is as long as
\* the token's text, NEWLINE, INDENT and OUTDENT having no length
TokenRange(raw_position, type, value) ==
    SourceRange(
        SourceLocation(raw_position.line, raw_position.col + 1),
        SourceLocation(raw_position.line,
                       raw_position.col + 1
                         + IF type \in {"NEWLINE", "INDENT", "OUTDENT"}
                           THEN 0
                           ELSE ValueLength(value)))

\* the try block of Scanner.peek after raw_scanner.read() returned token t
PeekToken(S, t) ==
    [S EXCEPT !.raw = t.r,
              !.peeked = Token(t.token.type, t.token.value,
                               TokenRange(position(t.r), t.token.type, t.token.value)),
              !.peeking = FALSE]

\* PeekRaised with the raw scanner's column, which counts from 0, taken as it is
PeekRaised_ZeroBased(S, t) ==
    IF t.raised = "UnrecognizedInput"
    THEN PeekFailed(S, t.r, InvalidCharacter(
             SourceLocation(position(t.r).line, position(t.r).col)))
    ELSE PeekFailed(S, t.r, InvalidIndentation(
             SourceLocation(t.raw_position.line, t.raw_position.col)))

\* the except clauses: the position is the raw scanner's for UnrecognizedInput
\* (Scanner.raw_position while peeking) and the exception's for IndentationError
PeekRaised(S, t) ==
    IF t.raised = "UnrecognizedInput"
    THEN PeekFailed(S, t.r, InvalidCharacter(
             SourceLocation(position(t.r).line, position(t.r).col + 1)))
    ELSE PeekFailed(S, t.r, InvalidIndentation(
             SourceLocation(t.raw_position.line, t.raw_position.col + 1)))

\* return self.peeked
peek_return(S) == [S |-> S, ret |-> S.peeked]

peek_fetched(S, t) ==
    peek_return(IF t.raised = "none" THEN PeekToken(S, t) ELSE PeekRaised(S, t))

\* Skip Plex's generated "EOF" token (where the type is None)
peek_skip(first) ==
    IF first.raised = "none" /\ first.token.type = NoneType
    THEN raw_read(first.r)
    ELSE first

\* the branch of peek taken when force_eof is set: it returns before the try
\* statement, so peeking stays set
peek_forced(S) ==
    [S EXCEPT !.peeking = TRUE,
              !.peeked = Token("EOF", None, S.last_token.source_range)]

\* peek without the test of the cached token
peek_NoCache(S) ==
    IF S.force_eof THEN peek_return(peek_forced(S))
    ELSE peek_fetched(S, peek_skip(raw_read(S.raw)))

peek(S) ==
    IF S.peeked # None THEN peek_return(S)
    ELSE IF S.force_eof THEN peek_return(peek_forced(S))
    ELSE peek_fetched(S, peek_skip(raw_read(S.raw)))

\* the statements of read after its call of peek
read_peeked(p) == [S |-> [p.S EXCEPT !.peeked = None, !.last_token = p.ret], ret |-> p.ret]

read(S) == read_peeked(peek(S))

(***************************************************************************)
(* The next_is_* predicates: each peeks, and tests the peeked token.       *)
(* token[0] is the type and token[1] the value (Token.__getitem__).        *)
(***************************************************************************)
ValueIs(value, string) == value.k = "text" /\ Join(value.s) = string

\* the tests, on the result p of the call of peek
punct_test(p, symbol) ==
    [S |-> p.S, ret |-> p.ret.type = symbol /\ ValueIs(p.ret.value, symbol)]
keyword_test(p, name) ==
    [S |-> p.S, ret |-> p.ret.type = "IDENT" /\ ValueIs(p.ret.value, name)]
type_test(p, type) == [S |-> p.S, ret |-> p.ret.type = type]

next_is_punct(S, symbol) == punct_test(peek(S), symbol)
next_is_keyword(S, name) == keyword_test(peek(S), name)
next_is_newline(S) == type_test(peek(S), "NEWLINE")
next_is_indent(S) == type_test(peek(S), "INDENT")
next_is_outdent(S) == type_test(peek(S), "OUTDENT")
next_is_eof(S) == type_test(peek(S), "EOF")
next_is_error(S) == type_test(peek(S), "ERROR")

(***************************************************************************)
(* Results of the calls that may raise: what is returned, or what is       *)
(* raised.                                                                 *)
(***************************************************************************)
Return(S, value) == [S |-> S, kind |-> "return", value |-> value]
Raise(S, value) == [S |-> S, kind |-> "raise", value |-> value]

\* raise self.peek().value
raise_value(p) == Raise(p.S, p.ret.value)

raise_if_error(e) == IF e.ret THEN raise_value(peek(e.S)) ELSE Return(e.S, None)

\* Scanner.raise_if_next_is_error
raise_if_next_is_error(S) == raise_if_error(next_is_error(S))

\* raise_unexpected with got_token=self.read()
raise_unexpected_Reading(p, wanted) ==
    Raise([p.S EXCEPT !.peeked = None, !.last_token = p.ret],
          UnexpectedToken(wanted, p.ret))

\* raise diag.UnexpectedToken(wanted_token=..., got_token=self.peek())
raise_unexpected(p, wanted) == Raise(p.S, UnexpectedToken(wanted, p.ret))

\* require_failed without the call of raise_if_next_is_error
require_failed_NoErrorFirst(e, wanted) == raise_unexpected(peek(e.S), wanted)

require_failed(e, wanted) ==
    IF e.kind = "raise" THEN e ELSE raise_unexpected(peek(e.S), wanted)

\* return self.read()
require_read(rd) == Return(rd.S, rd.ret)

\* the body shared by the six require_* methods: n is the result of the
\* method's next_is_* call, wanted its wanted_token
require(n, wanted) ==
    IF ~n.ret
    THEN require_failed(raise_if_next_is_error(n.S), wanted)
    ELSE require_read(read(n.S))

require_punct(S, symbol) ==
    require(next_is_punct(S, symbol), Token("PUNCT", ValText(<<symbol>>), None))
require_keyword(S, name) ==
    require(next_is_keyword(S, name), Token("IDENT", ValText(<<name>>), None))
require_indent(S) == require(next_is_indent(S), Token("INDENT", ValInt(4), None))
require_outdent(S) == require(next_is_outdent(S), Token("OUTDENT", ValInt(4), None))
require_newline(S) == require(next_is_newline(S), Token("NEWLINE", ValText(<<"\n">>), None))
require_eof(S) == require(next_is_eof(S), Token("EOF", None, None))

(***************************************************************************)
(* The state machine: a caller that peeks, reads and requires in any       *)
(* order.                                                                  *)
(***************************************************************************)
\* arguments the caller passes to require_punct and require_keyword
Symbols == {"("}
Names == {"a"}

\* index of the first EOF token among the delivered ones, 0 if none
RECURSIVE FirstEof(_, _)
FirstEof(d, i) ==
    IF i > Len(d) THEN 0 ELSE IF d[i].type = "EOF" THEN i ELSE FirstEof(d, i + 1)

\* tokens delivered after the first EOF token
PostEof(d) == IF FirstEof(d, 1) = 0 THEN 0 ELSE Len(d) - FirstEof(d, 1)

\* a consuming call is allowed unless the bound on reads past EOF is used up
MayConsume == PostEof(delivered) < MaxPostEof

InitWith(inputs) ==
    /\ input \in inputs
    /\ expression_only \in BOOLEAN
    /\ raw = RawScanner(expression_only)
    /\ peeked = None
    /\ peeking = FALSE
    /\ last_token = BeginToken
    /\ force_eof = FALSE
    /\ op = "init"
    /\ ret = [kind |-> "return", value |-> None]
    /\ delivered = <<>>
    /\ error_yielded = None
    /\ error_consumed = FALSE

Init == InitWith(Inputs)

\* the scanner after a call with result q, and what the call is seen to have
\* done; consuming tells a call that consumes the token it returns, first is
\* the token the call's first peek() yielded
Becomes(q, consuming, first) ==
    /\ q.kind = "return" /\ consuming => MayConsume
    /\ raw' = q.S.raw
    /\ peeked' = q.S.peeked
    /\ peeking' = q.S.peeking
    /\ last_token' = q.S.last_token
    /\ force_eof' = q.S.force_eof
    /\ ret' = [kind |-> q.kind, value |-> q.value]
    /\ delivered' = IF q.kind = "return" /\ consuming
                    THEN Append(delivered, q.value)
                    ELSE delivered
    /\ error_yielded' = IF error_yielded = None /\ first.type = "ERROR"
                        THEN first
                        ELSE error_yielded
    /\ error_consumed' = (error_consumed
                          \/ (q.kind = "return" /\ consuming /\ q.value.type = "ERROR"))
    /\ UNCHANGED <<input, expression_only>>

\* a call that cannot raise, as a result
Returns(p) == Return(p.S, p.ret)

Peek ==
    /\ op' = "peek"
    /\ Becomes(Returns(peek(Sc)), FALSE, peek(Sc).ret)

Read ==
    /\ op' = "read"
    /\ Becomes(Returns(read(Sc)), TRUE, peek(Sc).ret)

RequirePunct ==
    /\ op' = "require_punct"
    /\ \E symbol \in Symbols : Becomes(require_punct(Sc, symbol), TRUE, peek(Sc).ret)

RequireKeyword ==
    /\ op' = "require_keyword"
    /\ \E name \in Names : Becomes(require_keyword(Sc, name), TRUE, peek(Sc).ret)

RequireIndent ==
    /\ op' = "require_indent"
    /\ Becomes(require_indent(Sc), TRUE, peek(Sc).ret)

RequireOutdent ==
    /\ op' = "require_outdent"
    /\ Becomes(require_outdent(Sc), TRUE, peek(Sc).ret)

RequireNewline ==
    /\ op' = "require_newline"
    /\ Becomes(require_newline(Sc), TRUE, peek(Sc).ret)

RequireEof ==
    /\ op' = "require_eof"
    /\ Becomes(require_eof(Sc), TRUE, peek(Sc).ret)

Next ==
    \/ Peek
    \/ Read
    \/ RequirePunct
    \/ RequireKeyword
    \/ RequireIndent
    \/ RequireOutdent
    \/ RequireNewline
    \/ RequireEof

Spec == Init /\ [][Next]_vars

\* the same scanner over the documentation's example inputs
InitExamples == InitWith(Examples)
SpecExamples == InitExamples /\ [][Next]_vars

\* the same scanner over the block inputs
InitBlocks == InitWith(Blocks)
SpecBlocks == InitBlocks /\ [][Next]_vars

(***************************************************************************)
(* Notions the properties are stated with.                                 *)
(***************************************************************************)
RequireOps == {"require_punct", "require_keyword", "require_indent", "require_outdent",
               "require_newline", "require_eof"}

\* the scanner after the step
ScNext == [raw |-> raw', peeked |-> peeked', peeking |-> peeking',
           last_token |-> last_token', force_eof |-> force_eof']

\* what a require_* method requires of the next token, and the token it names
\* as wanted when it raises UnexpectedToken
Matches(name, token) ==
    CASE name = "require_punct" -> token.type = "(" /\ token.value = ValText(<<"(">>)
      [] name = "require_keyword" -> token.type = "IDENT" /\ token.value = ValText(<<"a">>)
      [] name = "require_indent" -> token.type = "INDENT"
      [] name = "require_outdent" -> token.type = "OUTDENT"
      [] name = "require_newline" -> token.type = "NEWLINE"
      [] OTHER -> token.type = "EOF"

Wanted(name) ==
    CASE name = "require_punct" -> Token("PUNCT", ValText(<<"(">>), None)
      [] name = "require_keyword" -> Token("IDENT", ValText(<<"a">>), None)
      [] name = "require_indent" -> Token("INDENT", ValInt(4), None)
      [] name = "require_outdent" -> Token("OUTDENT", ValInt(4), None)
      [] name = "require_newline" -> Token("NEWLINE", ValText(<<"\n">>), None)
      [] OTHER -> Token("EOF", None, None)

\* the offset in the input at which line number line (from 1) starts
RECURSIVE LineStart(_, _, _)
LineStart(line, i, at) ==
    IF line = 1 THEN at
    ELSE IF i > Len(input) THEN Len(input)
    ELSE IF input[i] = "\n" THEN LineStart(line - 1, i + 1, i)
    ELSE LineStart(line, i + 1, at)

\* the character at a location, "" past the end of the input
CharAt(location) ==
    IF location.column >= 1
       /\ LineStart(location.line, 1, 0) + location.column <= Len(input)
    THEN input[LineStart(location.line, 1, 0) + location.column]
    ELSE ""

\* the number of spaces the input has from offset at on
RECURSIVE SpacesFrom(_)
SpacesFrom(at) ==
    IF at < Len(input) /\ input[at + 1] = " " THEN 1 + SpacesFrom(at + 1) ELSE 0

\* the width of the leading spaces of a line
LineWidth(line) == SpacesFrom(LineStart(line, 1, 0))

\* type and value of the tokens delivered up to the first EOF token
UpToEof(d) ==
    [i \in 1..(IF FirstEof(d, 1) = 0 THEN Len(d) ELSE FirstEof(d, 1)) |->
        [type |-> d[i].type, value |-> d[i].value]]

Tok(type, text) == [type |-> type, value |-> ValText(text)]

\* the source range of the last delivered token that is no ERROR token, that
\* of the BEGIN token if there is none
RECURSIVE LastGoodRange(_)
LastGoodRange(d) ==
    IF d = <<>> THEN BeginToken.source_range
    ELSE IF Last(d).type # "ERROR" THEN Last(d).source_range
    ELSE LastGoodRange(Front(d))

\* every bracket of the input is closed, and none is closed that is not open
RECURSIVE BalancedFrom(_, _)
BalancedFrom(i, depth) ==
    IF i > Len(input) THEN depth = 0
    ELSE IF input[i] \in open_bracket THEN BalancedFrom(i + 1, depth + 1)
    ELSE IF input[i] \in close_bracket THEN depth > 0 /\ BalancedFrom(i + 1, depth - 1)
    ELSE BalancedFrom(i + 1, depth)

Balanced == BalancedFrom(1, 0)

(***************************************************************************)
(* C1.  As claimed: once peek() has yielded an ERROR token, every later    *)
(* peek() and read() yields EOF, also one made before the ERROR token has  *)
(* been consumed.                                                          *)
(***************************************************************************)
C1_EofRightAfterError ==
    [][(error_yielded # None /\ op' \in {"peek", "read"}) => ret'.value.type = "EOF"]_vars

(***************************************************************************)
(* C1, amended.  Once peek() has yielded an ERROR token, every later       *)
(* peek() and read() yields that same ERROR token as long as it has not    *)
(* been consumed, and EOF from then on: never another real token.          *)
(***************************************************************************)
C1_PostErrorStability ==
    [][(error_yielded # None /\ op' \in {"peek", "read"}) =>
          IF error_consumed
          THEN ret'.value.type = "EOF"
          ELSE ret'.value = error_yielded]_vars

\* an EOF token read after the ERROR token was consumed
C1_Witness ==
    /\ error_yielded # None
    /\ error_consumed
    /\ op = "read"
    /\ ret.value.type = "EOF"

(***************************************************************************)
(* C2.  In every state of the scanner, a second peek() right after a       *)
(* peek() returns a token equal to the first one's in type, value and      *)
(* source range, and leaves the scanner, its raw lexer included, as the    *)
(* first one left it.                                                      *)
(***************************************************************************)
C2_PeekIdempotent ==
    /\ peek(peek(Sc).S).ret = peek(Sc).ret
    /\ peek(peek(Sc).S).S = peek(Sc).S

\* peek() has cached the synthetic EOF token that force_eof brings
C2_Witness ==
    /\ op = "peek"
    /\ force_eof
    /\ peeked # None
    /\ peeked.type = "EOF"

(***************************************************************************)
(* C3.  A require_* method raises exactly when the next token is not the   *)
(* required one; it then raises the diagnostic the next token carries if   *)
(* that is an ERROR token, and otherwise UnexpectedToken with the wanted   *)
(* token and the token peek() returns.                                     *)
(***************************************************************************)
C3_RequireRaises ==
    [][op' \in RequireOps =>
          /\ (ret'.kind = "raise") = ~Matches(op', peek(Sc).ret)
          /\ ret'.kind = "raise" =>
                IF peek(Sc).ret.type = "ERROR"
                THEN ret'.value = peek(Sc).ret.value
                ELSE ret'.value = UnexpectedToken(Wanted(op'), peek(Sc).ret)]_vars

\* require_newline has raised the lexer's diagnostic
C3_Witness ==
    /\ op = "require_newline"
    /\ ret.kind = "raise"
    /\ ret.value.kind \in {"InvalidCharacter", "InvalidIndentation"}

(***************************************************************************)
(* C4.  A require_* method that returns has done what read() does: it      *)
(* returns the token peek() would have returned, makes it last_token and   *)
(* consumes it.  One that raises leaves the scanner as peek() leaves it,   *)
(* so that the next peek() returns the same token.                         *)
(***************************************************************************)
C4_RequireConsumes ==
    [][op' \in RequireOps =>
          IF ret'.kind = "return"
          THEN /\ ret'.value = peek(Sc).ret
               /\ last_token' = peek(Sc).ret
               /\ peeked' = None
               /\ ScNext = read(Sc).S
               /\ delivered' = Append(delivered, peek(Sc).ret)
          ELSE /\ ScNext = peek(Sc).S
               /\ peeked' = peek(Sc).ret
               /\ delivered' = delivered]_vars

\* require_indent has raised UnexpectedToken and the token is still the next one
C4_Witness ==
    /\ op = "require_indent"
    /\ ret.kind = "raise"
    /\ ret.value.kind = "UnexpectedToken"
    /\ peeked = ret.value.got_token
    /\ delivered # <<>>

(***************************************************************************)
(* C5.  Whenever force_eof is set and no token is cached, peek() returns   *)
(* an EOF token whose source range is that of the last token delivered     *)
(* that is no ERROR token, also after the ERROR token has been read.       *)
(***************************************************************************)
C5_EofAtLastGoodRange ==
    (force_eof /\ peeked = None) =>
        /\ peek(Sc).ret.type = "EOF"
        /\ peek(Sc).ret.source_range = LastGoodRange(delivered)

(***************************************************************************)
(* C6.  When the raw lexer raises UnrecognizedInput or IndentationError,   *)
(* peek() does not raise: it returns an ERROR token whose value is         *)
(* InvalidCharacter, respectively InvalidIndentation, with a location,     *)
(* and sets force_eof; the location of InvalidCharacter is that of a       *)
(* character of the input no pattern of the lexicon starts with.  When it  *)
(* raises nothing, the token is no ERROR token.  At most one ERROR token   *)
(* is delivered, and only EOF tokens after it.                             *)
(***************************************************************************)
C6_ErrorToken ==
    [][/\ (op' \in {"peek", "read"} /\ peeked = None /\ ~force_eof) =>
             IF peek_skip(raw_read(raw)).raised = "none"
             THEN ret'.value.type # "ERROR" /\ ~force_eof'
             ELSE /\ ret'.kind = "return"
                  /\ ret'.value.type = "ERROR"
                  /\ ret'.value.source_range = None
                  /\ force_eof'
                  /\ ret'.value.value.location.line \in 1..(MaxLines + 1)
                  /\ ret'.value.value.location.column >= 1
                  /\ IF peek_skip(raw_read(raw)).raised = "UnrecognizedInput"
                     THEN /\ ret'.value.value.kind = "InvalidCharacter"
                          /\ IsRealChar(CharAt(ret'.value.value.location))
                          /\ StartTrans(CharAt(ret'.value.value.location)) = "none"
                     ELSE ret'.value.value.kind = "InvalidIndentation"
       /\ \A i \in 1..Len(delivered') : \A j \in (i + 1)..Len(delivered') :
             delivered'[i].type = "ERROR" => delivered'[j].type = "EOF"]_vars

\* peek() has returned the ERROR token of a stray character that is not the
\* first one of its line
C6_Witness ==
    /\ op = "peek"
    /\ ret.value.type = "ERROR"
    /\ ret.value.value.kind = "InvalidCharacter"
    /\ ret.value.value.location.column > 1
    /\ CharAt(ret.value.value.location) = "@"
    /\ force_eof

(***************************************************************************)
(* C7.  The InvalidIndentation diagnostic of a dedent line whose width is  *)
(* no level of the indentation stack is located on that line, at the       *)
(* column of its first character that is no space, when it has one.       *)
(***************************************************************************)
C7_AtFirstNonSpace ==
    (/\ error_yielded # None
     /\ error_yielded.value.kind = "InvalidIndentation"
     /\ IsRealChar(CharAt(SourceLocation(raw.cur_line, LineWidth(raw.cur_line) + 1)))) =>
        error_yielded.value.location
           = SourceLocation(raw.cur_line, LineWidth(raw.cur_line) + 1)

(***************************************************************************)
(* C8.  In file mode, on an input with balanced brackets and consistent    *)
(* indentation, an EOF token that read() delivers is the last token        *)
(* delivered: there is one EOF token, and no token after it.               *)
(***************************************************************************)
C8_OneEofLast ==
    (~expression_only /\ Balanced /\ error_yielded = None) =>
        \A i \in 1..Len(delivered) : delivered[i].type = "EOF" => i = Len(delivered)

(***************************************************************************)
(* C9.  As claimed: in file mode the tokens delivered for "a = 1\n" up to  *)
(* EOF are IDENT(a), '=', NUMBER(1), NEWLINE, EOF.                         *)
(***************************************************************************)
C9_OneNewline ==
    (input = ExampleAssign /\ ~expression_only /\ FirstEof(delivered, 1) # 0) =>
        UpToEof(delivered) = <<Tok("IDENT", <<"a">>), Tok("=", <<"=">>),
                               Tok("NUMBER", <<"1">>), Tok("NEWLINE", <<"\n">>),
                               Tok("EOF", <<>>)>>

(***************************************************************************)
(* C9, amended.  In file mode the tokens delivered for "a = 1\n" up to EOF *)
(* are IDENT(a), '=', NUMBER(1), NEWLINE, NEWLINE, EOF: the NEWLINE of the *)
(* line break, then the NEWLINE that eof() always produces at bracket      *)
(* depth 0.                                                                *)
(***************************************************************************)
C9_TwoNewlines ==
    (input = ExampleAssign /\ ~expression_only /\ FirstEof(delivered, 1) # 0) =>
        UpToEof(delivered) = <<Tok("IDENT", <<"a">>), Tok("=", <<"=">>),
                               Tok("NUMBER", <<"1">>), Tok("NEWLINE", <<"\n">>),
                               Tok("NEWLINE", <<"\n">>), Tok("EOF", <<>>)>>

\* EOF has been delivered for "a = 1\n" in file mode
C9_Witness ==
    /\ input = ExampleAssign
    /\ ~expression_only
    /\ delivered # <<>>
    /\ Last(delivered).type = "EOF"

(***************************************************************************)
(* C10.  Every turn of the raw lexer that consumes a line break at bracket *)
(* depth 0 (the end of a code line, a blank line or a comment) produces    *)
(* exactly one NEWLINE token.                                              *)
(***************************************************************************)
C10_OneNewlinePerBreak ==
    /\ raw.break_exact
    /\ raw.break_newlines = raw.breaks

\* two line breaks consumed at bracket depth 0, one of them a comment's
C10_Witness ==
    /\ raw.breaks = 2
    /\ \E i \in 1..Len(input) : input[i] = "#"
    /\ Balanced
    /\ error_yielded = None
    /\ Len(delivered) >= 2

(***************************************************************************)
(* The turns of the raw lexer.  A call of raw_scanner.read() turns the     *)
(* loop of plex.Scanner.read until the queue holds a token; TurnStarts(r)  *)
(* are the raw scanners the turns of the next call start from, Scan(s) is  *)
(* what the turn from s scans and Turn(s) what it leaves.  Emitted(s) are  *)
(* the tokens the turn puts on the queue, which is empty when it starts.   *)
(***************************************************************************)
RECURSIVE TurnStarts(_)
TurnsAfter(r, t) ==
    IF t.raised = "none" /\ t.r.queue = <<>> THEN {r} \cup TurnStarts(t.r) ELSE {r}

TurnStarts(r) == IF r.queue # <<>> THEN {} ELSE TurnsAfter(r, read_step(r))

\* the turns the scanner may still make: none once force_eof is set
Turns == IF force_eof THEN {} ELSE TurnStarts(raw)

Scan(s) == scan_a_token(s)
Turn(s) == read_step(s)
Emitted(s) == Turn(s).r.queue
Types(q) == [i \in 1..Len(q) |-> q[i].type]
Structural == {"NEWLINE", "INDENT", "OUTDENT"}
NoStructural(q) == \A i \in 1..Len(q) : q[i].type \notin Structural

\* the turn from s scans a line break or a comment
IsBreakTurn(s) ==
    Scan(s).result = "token" /\ Scan(s).action \in {"handle_newline", "handle_comment"}

(***************************************************************************)
(* C11.  A turn that scans a newline or a comment at bracket depth > 0     *)
(* emits no token, does not enter the indent state and leaves the          *)
(* indentation stack as it is; at bracket depth 0 such a turn emits one    *)
(* NEWLINE token and enters the indent state.                              *)
(***************************************************************************)
C11_BracketSuppression ==
    \A s \in Turns :
        IsBreakTurn(s) =>
            IF s.bracket_count > 0
            THEN /\ Turn(s).raised = "none"
                 /\ Emitted(s) = <<>>
                 /\ s.state_name # "indent"
                 /\ Turn(s).r.state_name = s.state_name
                 /\ Turn(s).r.indents = s.indents
            ELSE /\ Types(Emitted(s)) = <<"NEWLINE">>
                 /\ Turn(s).r.state_name = "indent"

\* a line break inside a bracket gave no token, the one after the closing
\* bracket gave NEWLINE
C11_Witness ==
    /\ ~expression_only
    /\ Len(input) >= 4
    /\ input[1] = "(" /\ input[2] = "\n" /\ input[3] = ")" /\ input[4] = "\n"
    /\ Len(delivered) = 3
    /\ Types(delivered) = <<"(", ")", "NEWLINE">>
    /\ raw.state_name = "indent"

\* the raw scanners met: the one the scanner holds, and those the turns it
\* may still make leave
Met == {raw} \cup {Turn(s).r : s \in Turns}

Ascending(indents) ==
    /\ Len(indents) >= 1
    /\ indents[1] = 0
    /\ \A i \in 1..(Len(indents) - 1) : indents[i] < indents[i + 1]

(***************************************************************************)
(* C12.  After every turn of the raw lexer, one that ends in               *)
(* IndentationError included, the indentation stack is not empty, its      *)
(* bottom element is 0 and its elements increase strictly from bottom to   *)
(* top.                                                                    *)
(***************************************************************************)
C12_IndentsAscending == \A r \in Met : Ascending(r.indents)

\* a dedent to a width that is no level has popped a level of two and failed
C12_Witness ==
    /\ error_yielded # None
    /\ error_yielded.value.kind = "InvalidIndentation"
    /\ raw.n_indent = 2
    /\ raw.n_outdent = 1
    /\ Len(raw.indents) = 2

(***************************************************************************)
(* C13.  After every turn of the raw lexer, the number of INDENT tokens    *)
(* produced so far minus the number of OUTDENT tokens produced so far is   *)
(* the depth of the indentation stack minus 1.                             *)
(***************************************************************************)
C13_IndentBalance == \A r \in Met : r.n_indent - r.n_outdent = Len(r.indents) - 1

\* three levels were opened and closed again at the end of the input
C13_Witness ==
    /\ raw.n_indent = 3
    /\ raw.n_outdent = 3
    /\ delivered # <<>>
    /\ Last(delivered).type = "EOF"

\* the turn from s scans a closing bracket
IsCloseTurn(s) == Scan(s).result = "token" /\ Scan(s).action = "handle_close_bracket"

(***************************************************************************)
(* C14.  The bracket depth is never below its floor, 0 in file mode and 1  *)
(* in expression-only mode; a turn that scans a closing bracket at the     *)
(* floor leaves the depth as it is, raises nothing and emits the bracket   *)
(* as a token.                                                             *)
(***************************************************************************)
C14_BracketFloor ==
    /\ \A r \in Met :
          /\ r.min_bracket_count = (IF expression_only THEN 1 ELSE 0)
          /\ r.bracket_count >= r.min_bracket_count
    /\ \A s \in Turns :
          (IsCloseTurn(s) /\ s.bracket_count = s.min_bracket_count) =>
              /\ Turn(s).raised = "none"
              /\ Turn(s).r.bracket_count = s.bracket_count
              /\ Len(Emitted(s)) = 1
              /\ Emitted(s)[1].type \in close_bracket
              /\ Emitted(s)[1].value = ValText(Scan(s).text)

\* a closing bracket was delivered with nothing open, the depth is at the floor
C14_Witness ==
    /\ delivered # <<>>
    /\ delivered[1].type = ")"
    /\ raw.bracket_count = raw.min_bracket_count
    /\ error_yielded = None

(***************************************************************************)
(* C15.  In expression-only mode the raw lexer never emits NEWLINE,        *)
(* INDENT or OUTDENT, neither while scanning nor at the end of the input,  *)
(* never is in the indent state and keeps the indentation stack [0]; the   *)
(* turn at the end of the input emits EOF only (after the token of type    *)
(* None plex puts before it, which Scanner.peek skips).                    *)
(***************************************************************************)
C15_ExpressionOnly ==
    expression_only =>
        /\ \A r \in Met :
              /\ r.state_name = ""
              /\ r.indents = <<0>>
              /\ NoStructural(r.queue)
              /\ r.n_indent = 0 /\ r.n_outdent = 0
        /\ NoStructural(delivered)
        /\ peeked # None => peeked.type \notin Structural
        /\ \A s \in Turns :
              Scan(s).result = "end" => Types(Emitted(s)) = <<NoneType, "EOF">>

\* an expression of two lines was scanned to EOF
C15_Witness ==
    /\ expression_only
    /\ \E i \in 1..Len(input) : input[i] = "\n" /\ i < Len(input)
    /\ Len(delivered) >= 3
    /\ Last(delivered).type = "EOF"
    /\ error_yielded = None

\* the turn from s scans the indentation of a line that is not blank
IsIndentTurn(s) ==
    /\ Scan(s).result = "token"
    /\ Scan(s).action = "handle_indentation"
    /\ ~HasNewline(Scan(s).text)

\* the levels of a stack above width w
Above(indents, w) == Cardinality({i \in 1..Len(indents) : indents[i] > w})

Outdents(n) == [i \in 1..n |-> [type |-> "OUTDENT", value |-> ValText(<<>>)]]

(***************************************************************************)
(* C16.  A turn that scans, in the indent state, the indentation of width  *)
(* w of a line that is not blank, with t the top of the stack: if w > t it *)
(* pushes w and emits one INDENT with value w - t; if w = t it emits       *)
(* nothing and leaves the stack; if w < t it pops the levels above w and   *)
(* emits one OUTDENT for each; it raises IndentationError exactly when the *)
(* top after popping differs from w.                                       *)
(***************************************************************************)
C16_IndentationScan ==
    \A s \in Turns :
        IsIndentTurn(s) =>
            /\ s.state_name = "indent"
            /\ Len(Scan(s).text) > Last(s.indents) =>
                  /\ Turn(s).r.indents = Append(s.indents, Len(Scan(s).text))
                  /\ Emitted(s) = <<[type |-> "INDENT",
                                     value |-> ValInt(Len(Scan(s).text) - Last(s.indents))]>>
                  /\ Turn(s).raised = "none"
            /\ Len(Scan(s).text) = Last(s.indents) =>
                  /\ Turn(s).r.indents = s.indents
                  /\ Emitted(s) = <<>>
                  /\ Turn(s).raised = "none"
            /\ Len(Scan(s).text) < Last(s.indents) =>
                  /\ Turn(s).r.indents
                        = SubSeq(s.indents, 1,
                                 Len(s.indents) - Above(s.indents, Len(Scan(s).text)))
                  /\ Emitted(s) = Outdents(Above(s.indents, Len(Scan(s).text)))
                  /\ (Turn(s).raised = "IndentationError")
                        = (Last(Turn(s).r.indents) # Len(Scan(s).text))
                  /\ Turn(s).raised \in {"none", "IndentationError"}

\* the third line, of width 0, has closed the levels 1 and 2 at once
C16_Witness ==
    /\ ~expression_only
    /\ input = <<" ", "a", "\n", " ", " ", "a", "\n", "a", "\n">>
    /\ Len(delivered) >= 2
    /\ Last(delivered).type = "OUTDENT"
    /\ Last(Front(delivered)).type = "OUTDENT"
    /\ raw.indents = <<0>>
    /\ raw.cur_line = 3

\* the character the cursor of a raw scanner is at, "" at the end of the input
Ahead(r) == IF r.cur_pos < Len(input) THEN input[r.cur_pos + 1] ELSE ""

\* the turn from s scans the spaces before the '#' of a comment-only line
IsCommentLineTurn(s) == IsIndentTurn(s) /\ Ahead(Scan(s).r) = "#"

\* the turns a call makes: every method starts with peek(), which calls
\* raw_scanner.read() unless a token is cached
TurnsOfCall == IF peeked = None THEN Turns ELSE {}

(***************************************************************************)
(* C17.  A turn that scans the spaces of a comment-only line at bracket    *)
(* depth 0 emits no INDENT or OUTDENT and leaves the indentation stack as  *)
(* it is, whatever the width of the spaces before the '#'.                 *)
(***************************************************************************)
C17_CommentLineKeepsLevel ==
    [][\A s \in TurnsOfCall :
          (IsCommentLineTurn(s) /\ s.bracket_count = 0) =>
              /\ Turn(s).r.indents = s.indents
              /\ \A i \in 1..Len(Emitted(s)) :
                    Emitted(s)[i].type \notin {"INDENT", "OUTDENT"}
              /\ Turn(s).raised = "none"]_vars

\* the turn from s scans a blank line in the indent state
IsBlankTurn(s) ==
    /\ s.state_name = "indent"
    /\ Scan(s).result = "token"
    /\ HasNewline(Scan(s).text)

(***************************************************************************)
(* C18.  A turn that scans a blank line in the indent state (spaces, then  *)
(* a newline) emits exactly one NEWLINE and nothing else, leaves the       *)
(* indentation stack and the bracket depth as they are and stays in the    *)
(* indent state.                                                           *)
(***************************************************************************)
C18_BlankLine ==
    \A s \in Turns :
        IsBlankTurn(s) =>
            /\ Scan(s).action = "handle_indentation"
            /\ \A i \in 1..(Len(Scan(s).text) - 1) : Scan(s).text[i] = " "
            /\ Emitted(s) = <<[type |-> "NEWLINE", value |-> ValText(<<"\n">>)]>>
            /\ Turn(s).raised = "none"
            /\ Turn(s).r.indents = s.indents
            /\ Turn(s).r.bracket_count = s.bracket_count
            /\ Turn(s).r.state_name = "indent"
            /\ Turn(s).r.n_indent = s.n_indent
            /\ Turn(s).r.n_outdent = s.n_outdent

\* a blank line of one space under an open level gave NEWLINE and left the
\* level open
C18_Witness ==
    /\ ~expression_only
    /\ Len(input) >= 5
    /\ SubSeq(input, 1, 5) = <<" ", "a", "\n", " ", "\n">>
    /\ Len(delivered) = 4
    /\ Types(delivered) = <<"INDENT", "IDENT", "NEWLINE", "NEWLINE">>
    /\ raw.indents = <<0, 1>>
    /\ raw.state_name = "indent"

\* the turn from s finds the end of the input
IsEndTurn(s) == Scan(s).result = "end"

(***************************************************************************)
(* C19.  The turn that finds the end of the input emits, after the token   *)
(* of type None plex puts first and Scanner.peek skips: at bracket depth 0 *)
(* a NEWLINE, then one OUTDENT for each level still open, then EOF, and    *)
(* leaves the stack [0]; at another bracket depth EOF only, and leaves the *)
(* stack as it is.                                                         *)
(***************************************************************************)
C19_EndOfInput ==
    \A s \in Turns :
        IsEndTurn(s) =>
            /\ Turn(s).raised = "none"
            /\ IF s.bracket_count = 0
               THEN /\ Types(Emitted(s))
                          = <<NoneType, "NEWLINE">> \o Types(Outdents(Len(s.indents) - 1))
                               \o <<"EOF">>
                    /\ Turn(s).r.indents = <<0>>
               ELSE /\ Types(Emitted(s)) = <<NoneType, "EOF">>
                    /\ Turn(s).r.indents = s.indents

\* the end of the input closed two levels: NEWLINE, OUTDENT, OUTDENT, EOF
C19_Witness ==
    /\ ~expression_only
    /\ Len(delivered) >= 4
    /\ Types(SubSeq(delivered, Len(delivered) - 3, Len(delivered)))
          = <<"NEWLINE", "OUTDENT", "OUTDENT", "EOF">>
    /\ raw.indents = <<0>>

(***************************************************************************)
(* C20.  Once read() has returned an EOF token, every later peek() and     *)
(* read() returns an EOF token.                                            *)
(***************************************************************************)
C20_EofAbsorbing ==
    [][(FirstEof(delivered, 1) # 0 /\ op' \in {"peek", "read"}) =>
          ret'.value.type = "EOF"]_vars

====
